---------------------------- MODULE Spec2Model ----------------------------
(***************************************************************************)
(* The OpenFlow learning switch of lib/learning-switch.c as a state         *)
(* machine: one session (struct lswitch), the rconn it sends on, the clock  *)
(* and the messages handed to queue_tx by the most recent call.             *)
(*                                                                          *)
(* Integers wider than TLC's are kept as tuples of 16-bit words, most       *)
(* significant first: a uint32_t is <<hi, lo>>, a 64-bit datapath id is     *)
(* <<w1, w2, w3, w4>>.  Fields of inbound and outbound messages are in      *)
(* network byte order, as tuples of bytes; ntohs/ntohl/ntohll/htons/htonl   *)
(* convert.  Ethernet addresses are tuples of six bytes.                    *)
(***************************************************************************)
EXTENDS Integers, Sequences, FiniteSets, TLC

\* ------------------------------------------------------------------ bounds
\* Seconds the clock may reach.
MaxTime == 2
\* Capacity of the MAC learning table (MAX_ENTRIES), scaled down.
MaxEntries == 2
\* Seconds after which an unused entry is invisible (AGE_HARD) and after
\* which it is removed (AGE_MAX), scaled down with the clock.
AgeHard == 0
AgeMax == 1
\* Ports listed by one features reply; bytes of echo payload.
MaxPorts == 1
MaxPayload == 1

\* ------------------------------------------------- OpenFlow 1.0 constants
OFPT_ECHO_REQUEST == 2
OFPT_ECHO_REPLY == 3
OFPT_FEATURES_REQUEST == 5
OFPT_FEATURES_REPLY == 6
OFPT_SET_CONFIG == 9
OFPT_PACKET_IN == 10
OFPT_FLOW_REMOVED == 11
OFPT_PORT_STATUS == 12
OFPT_PACKET_OUT == 13
OFPT_FLOW_MOD == 14

OFPP_MAX == 65280
OFPP_NORMAL == 65530
OFPP_FLOOD == 65531
OFPP_LOCAL == 65534
OFPP_NONE == 65535

OFP_DEFAULT_MISS_SEND_LEN == 128
OFPR_NO_MATCH == 0
OFPR_ACTION == 1

UINT32_MAX == <<65535, 65535>>

\* sizeof(struct ofp_header), sizeof(struct ofp_switch_features),
\* offsetof(struct ofp_packet_in, data), sizeof(struct ofp_flow_removed),
\* sizeof(struct ofp_phy_port), sizeof(struct ofp_switch_config)
SizeofHeader == 8
SizeofSwitchFeatures == 32
OffsetofPacketInData == 18
SizeofFlowRemoved == 88
SizeofPhyPort == 48
SizeofSwitchConfig == 12
ETH_HEADER_LEN == 14

\* Return values of rconn_send_with_limit().
EAGAIN == 11
ENOTCONN == 107
TxLimit == 10

\* ------------------------------------------------------ byte-order helpers
ntohs(b) == b[1] * 256 + b[2]
htons(x) == <<x \div 256, x % 256>>
ntohl(b) == <<b[1] * 256 + b[2], b[3] * 256 + b[4]>>
htonl(x) == <<x[1] \div 256, x[1] % 256, x[2] \div 256, x[2] % 256>>
ntohll(b) == <<b[1] * 256 + b[2], b[3] * 256 + b[4],
               b[5] * 256 + b[6], b[7] * 256 + b[8]>>

U32(n) == <<0, n>>
DpidZero == <<0, 0, 0, 0>>

\* ------------------------------------------------------ Ethernet addresses
eth_addr_is_multicast(ea) == ea[1] % 2 = 1
eth_addr_is_zero(ea) == \A i \in 1..6 : ea[i] = 0
\* 01:80:c2:00:00:00 under the mask ff:ff:ff:ff:ff:f0
eth_addr_is_reserved(ea) ==
    /\ ea[1] = 1 /\ ea[2] = 128 /\ ea[3] = 194
    /\ ea[4] = 0 /\ ea[5] = 0 /\ ea[6] \div 16 = 0

EthZero == <<0, 0, 0, 0, 0, 0>>
EthA == <<0, 17, 34, 51, 68, 85>>
EthB == <<102, 119, 136, 153, 170, 187>>
EthBcast == <<255, 255, 255, 255, 255, 255>>
EthStp == <<1, 128, 194, 0, 0, 0>>
EthStpHigh == <<1, 128, 194, 0, 0, 15>>
EthMcast == <<1, 128, 194, 0, 0, 16>>

\* ------------------------------------------------------ MAC learning table
\* lib/mac-learning.c.  The table is the recency list: the least recently
\* used entry first.  The learning switch always passes GRAT_ARP_LOCK_NONE,
\* so no entry is ever locked and the lock state is not kept.
MlNull == [exists |-> FALSE, lrus |-> <<>>]
mac_learning_create == [exists |-> TRUE, lrus |-> <<>>]

MacIndex(lrus, mac, vlan) ==
    IF \E i \in 1..Len(lrus) : lrus[i].mac = mac /\ lrus[i].vlan = vlan
    THEN CHOOSE i \in 1..Len(lrus) : lrus[i].mac = mac /\ lrus[i].vlan = vlan
    ELSE 0

SeqRemove(q, i) == [j \in 1..(Len(q) - 1) |-> IF j < i THEN q[j] ELSE q[j + 1]]

\* learn(src, vlan, in_port) -> [ml, moved]
mac_learning_learn(ml, src, vlan, port, t) ==
    IF eth_addr_is_multicast(src) \/ eth_addr_is_zero(src)
    THEN [ml |-> ml, moved |-> FALSE]
    ELSE LET i == MacIndex(ml.lrus, src, vlan)
             e == [mac |-> src, vlan |-> vlan, port |-> port, used |-> t]
         IN  IF i # 0
             THEN [ml |-> [ml EXCEPT !.lrus = Append(SeqRemove(ml.lrus, i), e)],
                   moved |-> ml.lrus[i].port # port]
             ELSE LET kept == IF Len(ml.lrus) >= MaxEntries
                              THEN Tail(ml.lrus) ELSE ml.lrus
                  IN  [ml |-> [ml EXCEPT !.lrus = Append(kept, e)],
                       moved |-> FALSE]

\* lookup(dst, vlan) -> port_no, or -1 for UNKNOWN
mac_learning_lookup(ml, dst, vlan, t) ==
    LET i == MacIndex(ml.lrus, dst, vlan)
    IN  IF i # 0 /\ t - ml.lrus[i].used <= AgeHard
        THEN ml.lrus[i].port ELSE -1

RECURSIVE SeqFilterFresh(_, _)
SeqFilterFresh(q, t) ==
    IF q = <<>> THEN <<>>
    ELSE IF t - Head(q).used > AgeMax
         THEN SeqFilterFresh(Tail(q), t)
         ELSE <<Head(q)>> \o SeqFilterFresh(Tail(q), t)

\* run(now): removes the entries older than AGE_MAX
mac_learning_run(ml, t) == [ml EXCEPT !.lrus = SeqFilterFresh(ml.lrus, t)]

\* ------------------------------------------------------------ port names
\* A port name is the sequence of its characters.  The name field of struct
\* ofp_phy_port holds OFP_MAX_PORT_NAME_LEN bytes.
OFP_MAX_PORT_NAME_LEN == 16
NameEth0 == <<101, 116, 104, 48>>
NameEth1 == <<101, 116, 104, 49>>
NameLong15 == <<118, 101, 114, 121, 108, 111, 110, 103, 112, 111, 114, 116, 110, 97, 109>>
NameLong16 == NameLong15 \o <<101>>

\* opp->name[OFP_MAX_PORT_NAME_LEN - 1] = '\0', then read as a C string
TerminateName(name) ==
    IF Len(name) >= OFP_MAX_PORT_NAME_LEN
    THEN SubSeq(name, 1, OFP_MAX_PORT_NAME_LEN - 1)
    ELSE name

\* ------------------------------------------------------------------ state
VARIABLES
    cfg,        \* struct lswitch_config handed to lswitch_create
    live,       \* "none" before lswitch_create, "live", "destroyed"
    sw,         \* struct lswitch
    rconn,      \* the connection: connected?, and does it send at once?
    now,        \* time_now()
    rx,         \* <<msg>> from lswitch_process_packet(msg) until the caller
                \* deletes msg; else <<>>
    tx,         \* what the last call handed to queue_tx: <<[msg, retval]>>
    chosen,     \* the out_port the last call chose; -1: none
    fr_time,    \* when a features request was last handed over; -1: never
    link,       \* the packets the connection holds, oldest first, where the
                \* machine keeps them: <<[type, call]>>
    heap        \* the records allocated for the session and not freed

vars == <<cfg, live, sw, rconn, now, rx, tx, chosen, fr_time, link, heap>>

time_now == now

\* ---------------------------------------------------------- configuration
LSW_NORMAL == "normal"
LSW_FLOOD == "hub"
LSW_LEARN == "learn"
Modes == {LSW_NORMAL, LSW_FLOOD, LSW_LEARN}

\* A default flow is a flow-mod serialised by the caller.
DefaultFlow == [type |-> OFPT_FLOW_MOD, command |-> "OFPFC_ADD", preset |-> TRUE]

NoQueues == [n \in {} |-> U32(0)]
PortQueues == [n \in {NameEth0, NameLong15} |->
                 IF n = NameEth0 THEN U32(7) ELSE U32(8)]

\* The configurations: every mode with flows installed and not, each plain
\* (no queues, wildcarded flows, no default flows); and, per CfgQueues, with
\* queue bindings, a default queue, exact-match flows and one default flow.
Plain(mode, max_idle) ==
    [mode |-> mode, max_idle |-> max_idle, exact_flows |-> FALSE,
     default_queue |-> UINT32_MAX, port_queues |-> NoQueues,
     default_flows |-> <<>>]
Queued(mode, max_idle) ==
    [mode |-> mode, max_idle |-> max_idle, exact_flows |-> TRUE,
     default_queue |-> U32(3), port_queues |-> PortQueues,
     default_flows |-> <<DefaultFlow>>]

Configs ==
    {Plain(m, i) : m \in Modes, i \in {-1, 60}}
    \cup {Queued(m, 60) : m \in {LSW_FLOOD, LSW_NORMAL}}

\* ------------------------------------------------------------ the rconn
\* lib/rconn.c: rconn_send_with_limit() refuses with EAGAIN once 'limit'
\* packets counted by 'counter' are in flight, and rconn_send() refuses
\* with ENOTCONN while the connection is down.
rconn_send_with_limit(rc, n, limit) ==
    IF n < limit
    THEN (IF rc.connected THEN 0 ELSE ENOTCONN)
    ELSE EAGAIN

\* Mutant: the limit is one packet too high.
queue_tx_OneMore(st, b) ==
    LET retval == rconn_send_with_limit(rconn, st.sw.queued, TxLimit + 1)
    IN  [st EXCEPT !.sw.queued = IF retval = 0 /\ ~rconn.eager THEN @ + 1 ELSE @,
                   !.tx = Append(@, [msg |-> b, retval |-> retval])]

\* queue_tx(sw, rconn, b).  'st' is what a call has come to: the session
\* 'sw', the messages 'tx' handed to queue_tx so far with the link's
\* answers, and the 'out_port' chosen (-1: none chosen).  An accepted packet stays
\* counted in sw->queued until the connection has sent it; a connection
\* that sends at once has sent it before rconn_send() returns.
queue_tx(st, b) ==
    LET retval == rconn_send_with_limit(rconn, st.sw.queued, TxLimit)
    IN  [st EXCEPT !.sw.queued = IF retval = 0 /\ ~rconn.eager THEN @ + 1 ELSE @,
                   !.tx = Append(@, [msg |-> b, retval |-> retval])]

\* make_openflow(sizeof(struct ofp_header), OFPT_FEATURES_REQUEST, &b)
FeaturesRequest == [type |-> OFPT_FEATURES_REQUEST, length |-> htons(SizeofHeader)]
\* make_openflow(sizeof *osc, OFPT_SET_CONFIG, &b); osc->miss_send_len = ...
SetConfig == [type |-> OFPT_SET_CONFIG, length |-> htons(SizeofSwitchConfig),
              miss_send_len |-> htons(OFP_DEFAULT_MISS_SEND_LEN)]

\* Mutant: no second has to pass.
FeaturesRequestDue_SameSecond(t, last) == t >= last

\* now >= sw->last_features_request + 1
FeaturesRequestDue(t, last) == t >= last + 1

send_features_request(st, t) ==
    IF FeaturesRequestDue(t, st.sw.last_features_request)
    THEN LET s1 == queue_tx(st, FeaturesRequest)
             s2 == queue_tx(s1, SetConfig)
         IN  [s2 EXCEPT !.sw.last_features_request = t]
    ELSE st

\* ---------------------------------------------------------- lswitch_create
DefaultWildcards == {"OFPFW_DL_TYPE", "OFPFW_NW_SRC_MASK", "OFPFW_NW_DST_MASK",
                     "OFPFW_NW_PROTO", "OFPFW_TP_SRC", "OFPFW_TP_DST"}

\* The state before lswitch_create and after lswitch_destroy: no session.
NoSwitch ==
    [max_idle |-> 0, datapath_id |-> DpidZero, last_features_request |-> 0,
     ml |-> MlNull, wildcards |-> {}, action_normal |-> FALSE,
     default_queue |-> U32(0), queue_numbers |-> <<>>,
     queue_names |-> NoQueues, queued |-> 0]

\* Mutant: the session starts as if it had just sent a features request.
InitialLastFeaturesRequest_Now(t) == t

\* sw->last_features_request = time_now() - 1
InitialLastFeaturesRequest(t) == t - 1

RECURSIVE QueueAll(_, _)
QueueAll(st, bs) ==
    IF bs = <<>> THEN st ELSE QueueAll(queue_tx(st, Head(bs)), Tail(bs))

lswitch_create(c, t) ==
    LET sw0 ==
          [max_idle |-> c.max_idle,
           datapath_id |-> DpidZero,
           last_features_request |-> InitialLastFeaturesRequest(t),
           ml |-> IF c.mode = LSW_LEARN THEN mac_learning_create ELSE MlNull,
           wildcards |-> IF c.exact_flows THEN {} ELSE DefaultWildcards,
           action_normal |-> c.mode = LSW_NORMAL,
           default_queue |-> c.default_queue,
           queue_numbers |-> <<>>,
           queue_names |-> [n \in DOMAIN c.port_queues |->
                              [queue_id |-> c.port_queues[n], port_no |-> 0,
                               in_hmap |-> FALSE]],
           queued |-> 0]
        s1 == send_features_request([sw |-> sw0, tx |-> <<>>, out_port |-> -1], t)
    IN  QueueAll(s1, c.default_flows)

\* ------------------------------------------------- process_switch_features
\* lib/ofp-util.c: check_ofp_message_array() fails unless the header's
\* length is min_size plus a whole number of array elements; n_ports is
\* that number.
ArrayLengthOk(length, min_size, elem_size) ==
    length >= min_size /\ (length - min_size) % elem_size = 0
ArrayCount(length, min_size, elem_size) == (length - min_size) \div elem_size

\* One turn of the loop over osf->ports.
ResolvePort(s, opp) ==
    LET name == TerminateName(opp.name)
    IN  IF name \in DOMAIN s.queue_names /\ ~s.queue_names[name].in_hmap
        THEN [s EXCEPT !.queue_names[name].port_no = ntohs(opp.port_no),
                       !.queue_names[name].in_hmap = TRUE,
                       !.queue_numbers = Append(@, name)]
        ELSE s

RECURSIVE ResolvePorts(_, _, _)
ResolvePorts(s, ports, n) ==
    IF n = 0 \/ ports = <<>> THEN s
    ELSE ResolvePorts(ResolvePort(s, Head(ports)), Tail(ports), n - 1)

\* Mutant: a datapath id of 0 is not taken.
SetDatapathId_UnlessZero(s, osf) ==
    IF ntohll(osf.datapath_id) = DpidZero THEN s
    ELSE [s EXCEPT !.datapath_id = ntohll(osf.datapath_id)]

\* sw->datapath_id = ntohll(osf->datapath_id)
SetDatapathId(s, osf) == [s EXCEPT !.datapath_id = ntohll(osf.datapath_id)]

process_switch_features(st, osf) ==
    LET length == ntohs(osf.length)
    IN  IF ~ArrayLengthOk(length, SizeofSwitchFeatures, SizeofPhyPort)
        THEN st
        ELSE LET s1 == SetDatapathId(st.sw, osf)
                 n_ports == ArrayCount(length, SizeofSwitchFeatures, SizeofPhyPort)
             IN  [st EXCEPT !.sw = ResolvePorts(s1, osf.ports, n_ports)]

\* ---------------------------------------------- lswitch_choose_destination
\* Returns [sw, out_port].
\* mac_learning_learn(sw->ml, flow->dl_src, 0, flow->in_port, ...)
LearnSource(ml, flow, t) ==
    mac_learning_learn(ml, flow.dl_src, 0, flow.in_port, t).ml

\* Mutant: the source address is tested instead.
ReservedDestination_BySource(flow) == eth_addr_is_reserved(flow.dl_src)

\* eth_addr_is_reserved(flow->dl_dst)
ReservedDestination(flow) == eth_addr_is_reserved(flow.dl_dst)

\* Mutant: the source address is looked up instead.
LearnedPort_BySource(ml, flow, t) == mac_learning_lookup(ml, flow.dl_src, 0, t)

\* mac_learning_lookup(sw->ml, flow->dl_dst, 0, NULL)
LearnedPort(ml, flow, t) == mac_learning_lookup(ml, flow.dl_dst, 0, t)

\* Mutant: the input port is never recognised.
BackOutInput_Never(out_port, flow) == FALSE

\* out_port == flow->in_port
BackOutInput(out_port, flow) == out_port = flow.in_port

\* sw->action_normal && out_port != OFPP_FLOOD
UseNormal(s, out_port) == s.action_normal /\ out_port # OFPP_FLOOD

lswitch_choose_destination(s, flow, t) ==
    LET ml1 == IF s.ml.exists THEN LearnSource(s.ml, flow, t) ELSE s.ml
        s1 == [s EXCEPT !.ml = ml1]
        learned_port == IF ml1.exists THEN LearnedPort(ml1, flow, t) ELSE -1
        out_port == IF learned_port >= 0 THEN learned_port % 65536 ELSE OFPP_FLOOD
    IN  IF ReservedDestination(flow)
        THEN [sw |-> s1, out_port |-> OFPP_NONE]
        ELSE IF learned_port >= 0 /\ BackOutInput(out_port, flow)
        THEN [sw |-> s1, out_port |-> OFPP_NONE]
        ELSE IF UseNormal(s, out_port)
        THEN [sw |-> s1, out_port |-> OFPP_NORMAL]
        ELSE [sw |-> s1, out_port |-> out_port]

\* ------------------------------------------------------------ get_queue_id
\* hmap_insert() puts a node at the head of its bucket, so the walk over
\* the bucket meets the binding inserted last first.
RECURSIVE LastBound(_, _, _)
LastBound(s, in_port, i) ==
    IF i = 0 THEN s.default_queue
    ELSE IF s.queue_names[s.queue_numbers[i]].port_no = in_port
         THEN s.queue_names[s.queue_numbers[i]].queue_id
         ELSE LastBound(s, in_port, i - 1)

\* Mutant: the bindings are not looked at.
get_queue_id_DefaultOnly(s, in_port) == s.default_queue

get_queue_id(s, in_port) == LastBound(s, in_port, Len(s.queue_numbers))

\* ------------------------------------------------------- process_packet_in
OFP_VLAN_NONE == 65535

\* lib/flow.c: flow_extract() zeroes the flow, sets in_port, and reads the
\* Ethernet header if the packet holds one.
flow_extract(pkt, in_port) ==
    IF pkt.size >= ETH_HEADER_LEN
    THEN [in_port |-> in_port, dl_src |-> pkt.dl_src, dl_dst |-> pkt.dl_dst,
          dl_vlan |-> pkt.dl_vlan]
    ELSE [in_port |-> in_port, dl_src |-> EthZero, dl_dst |-> EthZero,
          dl_vlan |-> OFP_VLAN_NONE]

SizeofActionOutput == 8
SizeofActionEnqueue == 16
SizeofActionHeader == 8

\* Mutant: OFPP_NONE is output to like any other port.
MakeActions_NoDrop(out_port, queue_id) ==
    IF queue_id = UINT32_MAX \/ out_port >= OFPP_MAX
    THEN <<[type |-> "OFPAT_OUTPUT", len |-> htons(SizeofActionOutput),
            port |-> htons(out_port)]>>
    ELSE <<[type |-> "OFPAT_ENQUEUE", len |-> htons(SizeofActionEnqueue),
            port |-> htons(out_port), queue_id |-> htonl(queue_id)]>>

\* The bytes of actions[] that are filled in: <<>> (actions_len = 0) or one
\* action.
MakeActions(out_port, queue_id) ==
    IF out_port = OFPP_NONE THEN <<>>
    ELSE IF queue_id = UINT32_MAX \/ out_port >= OFPP_MAX
    THEN <<[type |-> "OFPAT_OUTPUT", len |-> htons(SizeofActionOutput),
            port |-> htons(out_port)]>>
    ELSE <<[type |-> "OFPAT_ENQUEUE", len |-> htons(SizeofActionEnqueue),
            port |-> htons(out_port), queue_id |-> htonl(queue_id)]>>

ActionsLen(actions) == IF actions = <<>> THEN 0 ELSE ntohs(actions[1].len)

\* lib/ofp-util.c: make_add_flow(), followed by the actions and wildcards
make_add_flow(flow, buffer_id, idle_timeout, wildcards, actions) ==
    [type |-> OFPT_FLOW_MOD, command |-> "OFPFC_ADD", preset |-> FALSE,
     match |-> flow, wildcards |-> wildcards,
     idle_timeout |-> htons(idle_timeout), buffer_id |-> htonl(buffer_id),
     actions |-> actions]

\* lib/ofp-util.c: make_packet_out() carries the packet only when the
\* switch holds no buffer for it.
make_packet_out(pkt, buffer_id, in_port, actions, n_actions) ==
    [type |-> OFPT_PACKET_OUT, buffer_id |-> htonl(buffer_id),
     in_port |-> htons(in_port), n_actions |-> n_actions, actions |-> actions,
     data |-> IF buffer_id = UINT32_MAX THEN <<pkt>> ELSE <<>>]

\* Mutant: floods are installed in learn mode too.
InstallsFlow_AnyPort(s, out_port) == s.max_idle >= 0

InstallsFlow(s, out_port) ==
    s.max_idle >= 0 /\ (~s.ml.exists \/ out_port # OFPP_FLOOD)

\* Mutant: the copy is sent whatever the actions are.
CopiesPacket_NoActions(buffer_id, actions_len) == buffer_id = UINT32_MAX

\* ntohl(opi->buffer_id) == UINT32_MAX && actions_len > 0
CopiesPacket(buffer_id, actions_len) ==
    buffer_id = UINT32_MAX /\ actions_len > 0

\* ntohl(opi->buffer_id) != UINT32_MAX || actions_len > 0
SendsAlong(buffer_id, actions_len) ==
    buffer_id # UINT32_MAX \/ actions_len > 0

\* Mutant: the copy of the packet goes out ahead of the flow.
AddFlowAndCopy_CopyFirst(s, ofm, opo, copy) ==
    IF copy THEN queue_tx(queue_tx(s, opo), ofm) ELSE queue_tx(s, ofm)

\* The branch that adds a flow: the flow-mod, then the copy of the packet.
AddFlowAndCopy(s, ofm, opo, copy) ==
    LET s2 == queue_tx(s, ofm)
    IN  IF copy THEN queue_tx(s2, opo) ELSE s2

\* Mutant: packets sent by an action are processed too.
NotForUs_Never(opi) == FALSE

\* opi->reason != OFPR_NO_MATCH
NotForUs(opi) == opi.reason # OFPR_NO_MATCH

process_packet_in(st, opi, t) ==
    IF NotForUs(opi) THEN st
    ELSE
    LET in_port == ntohs(opi.in_port)
        buffer_id == ntohl(opi.buffer_id)
        flow == flow_extract(opi.data, in_port)
        cd == lswitch_choose_destination(st.sw, flow, t)
        out_port == cd.out_port
        s1 == [st EXCEPT !.sw = cd.sw, !.out_port = out_port]
        queue_id == get_queue_id(cd.sw, in_port)
        actions == MakeActions(out_port, queue_id)
        actions_len == ActionsLen(actions)
        n_actions == actions_len \div SizeofActionHeader
    IN  IF InstallsFlow(cd.sw, out_port)
        THEN AddFlowAndCopy(s1,
                 make_add_flow(flow, buffer_id, cd.sw.max_idle, cd.sw.wildcards,
                               actions),
                 make_packet_out(opi.data, UINT32_MAX, in_port, actions, n_actions),
                 CopiesPacket(buffer_id, actions_len))
        ELSE IF SendsAlong(buffer_id, actions_len)
             THEN queue_tx(s1, make_packet_out(opi.data, buffer_id, in_port,
                                               actions, n_actions))
             ELSE s1

\* ---------------------------------------------------- process_echo_request
\* lib/ofp-util.c: make_echo_reply() copies the request and changes its type.
make_echo_reply(rq) ==
    [type |-> OFPT_ECHO_REPLY, length |-> rq.length, xid |-> rq.xid,
     payload |-> rq.payload]

process_echo_request(st, rq) == queue_tx(st, make_echo_reply(rq))

\* -------------------------------------------------- lswitch_process_packet
\* Mutant: only the features reply is let through.
PassesUnknown_NoEcho(type) == type = OFPT_FEATURES_REPLY

\* The message types dispatched whatever the datapath id is.
PassesUnknown(type) ==
    type = OFPT_ECHO_REQUEST \/ type = OFPT_FEATURES_REPLY

\* Mutant: the datapath id is not looked at.
AwaitsFeatures_Never(s, type) == FALSE

\* The test that sends a features request instead of dispatching.
AwaitsFeatures(s, type) ==
    s.datapath_id = DpidZero /\ ~PassesUnknown(type)

\* Mutant: no minimum.
MinSize_None(type) == 0

\* processors[]: min_size by type.
MinSize(type) ==
    CASE type = OFPT_ECHO_REQUEST -> SizeofHeader
      [] type = OFPT_FEATURES_REPLY -> SizeofSwitchFeatures
      [] type = OFPT_PACKET_IN -> OffsetofPacketInData
      [] type = OFPT_FLOW_REMOVED -> SizeofFlowRemoved
      [] OTHER -> 0

Handled == {OFPT_ECHO_REQUEST, OFPT_FEATURES_REPLY, OFPT_PACKET_IN,
            OFPT_FLOW_REMOVED}

lswitch_process_packet(st, msg, t) ==
    IF AwaitsFeatures(st.sw, msg.type) THEN send_features_request(st, t)
    ELSE IF msg.type \notin Handled THEN st
    ELSE IF msg.size < MinSize(msg.type) THEN st
    ELSE CASE msg.type = OFPT_ECHO_REQUEST -> process_echo_request(st, msg)
           [] msg.type = OFPT_FEATURES_REPLY -> process_switch_features(st, msg)
           [] msg.type = OFPT_PACKET_IN -> process_packet_in(st, msg, t)
           [] OTHER -> st

\* -------------------------------------------------------- inbound messages
Bytes == {170, 85}
RECURSIVE SeqsUpTo(_, _)
SeqsUpTo(S, n) ==
    IF n = 0 THEN {<<>>}
    ELSE LET shorter == SeqsUpTo(S, n - 1)
         IN  shorter \cup {Append(q, x) : q \in shorter, x \in S}

Xids == {<<0, 0, 0, 1>>, <<18, 52, 86, 120>>}

\* Of the messages cut short of their type's minimum, one of each type.
EchoRequests ==
    {[type |-> OFPT_ECHO_REQUEST, size |-> SizeofHeader + Len(p),
      length |-> htons(SizeofHeader + Len(p)), xid |-> x, payload |-> p] :
        x \in Xids, p \in SeqsUpTo(Bytes, MaxPayload)}
    \cup {[type |-> OFPT_ECHO_REQUEST, size |-> SizeofHeader - 1,
           length |-> htons(SizeofHeader - 1), xid |-> <<0, 0, 0, 1>>,
           payload |-> <<>>]}

DpidWire == <<1, 35, 69, 103, 137, 171, 205, 239>>
DpidZeroWire == <<0, 0, 0, 0, 0, 0, 0, 0>>
WireNames == {NameEth0, NameEth1, NameLong16}
WirePorts == {<<0, 1>>, <<0, 2>>}
PhyPorts == [name : WireNames, port_no : WirePorts]

\* A features reply is as long as its header says.  Besides the well-formed
\* ones: replies with 4 bytes after the last whole port, and one cut short
\* of the fixed part.
FeaturesReply(d, ports, slack) ==
    [type |-> OFPT_FEATURES_REPLY,
     size |-> SizeofSwitchFeatures + SizeofPhyPort * Len(ports) + slack,
     length |-> htons(SizeofSwitchFeatures + SizeofPhyPort * Len(ports) + slack),
     datapath_id |-> d, ports |-> ports]

FeaturesReplies ==
    {FeaturesReply(d, ports, 0) :
        d \in {DpidWire, DpidZeroWire}, ports \in SeqsUpTo(PhyPorts, MaxPorts)}
    \cup {FeaturesReply(DpidWire, ports, 4) : ports \in SeqsUpTo({[name |-> NameEth0, port_no |-> <<0, 1>>]}, 1)}
    \cup {[FeaturesReply(DpidWire, <<>>, 0) EXCEPT !.size = SizeofSwitchFeatures - 1,
                                         !.length = htons(SizeofSwitchFeatures - 1)]}

\* EthZero comes with the packet too short to hold an Ethernet header.
Addrs == {EthA, EthB, EthBcast, EthStp}
\* Destinations only: the last reserved address and the one after it.
Dsts == Addrs \cup {EthStpHigh, EthMcast}
Vlans == {OFP_VLAN_NONE}
\* The ports a datapath reports packets from: physical ports and OFPP_LOCAL.
InPorts == {<<0, 1>>, <<0, 2>>, htons(OFPP_LOCAL)}
BufferNone == <<255, 255, 255, 255>>
BufferIds == {BufferNone, <<0, 0, 0, 7>>}

\* Frames of 64 bytes, the least Ethernet carries.
Packets ==
    {[size |-> 64, dl_dst |-> d, dl_src |-> s, dl_vlan |-> v] :
        d \in Dsts, s \in Addrs, v \in Vlans}
    \cup {[size |-> 0, dl_dst |-> EthZero, dl_src |-> EthZero, dl_vlan |-> OFP_VLAN_NONE]}

PacketIn(b, p, r, pkt) ==
    [type |-> OFPT_PACKET_IN, size |-> OffsetofPacketInData + pkt.size,
     length |-> htons(OffsetofPacketInData + pkt.size),
     buffer_id |-> b, in_port |-> p, reason |-> r, data |-> pkt]

\* Every packet sent for want of a match; of those sent by an action, and
\* of those cut short, the ones from EthA to EthB.
PacketIns ==
    {PacketIn(b, p, OFPR_NO_MATCH, pkt) :
        b \in BufferIds, p \in InPorts, pkt \in Packets}
    \cup {PacketIn(b, p, OFPR_ACTION, pkt) :
        b \in BufferIds, p \in InPorts,
        pkt \in {q \in Packets : q.dl_src = EthA /\ q.dl_dst = EthB}}
    \cup {[PacketIn(BufferNone, p, OFPR_NO_MATCH, pkt) EXCEPT
              !.size = OffsetofPacketInData - 1,
              !.length = htons(OffsetofPacketInData - 1)] :
        p \in InPorts,
        pkt \in {q \in Packets : q.dl_src = EthA /\ q.dl_dst = EthB}}

FlowRemoveds ==
    {[type |-> OFPT_FLOW_REMOVED, size |-> sz] :
        sz \in {SizeofFlowRemoved - 1, SizeofFlowRemoved}}

Others == {[type |-> OFPT_PORT_STATUS, size |-> 64]}

Inbound == EchoRequests \cup FeaturesReplies \cup PacketIns \cup FlowRemoveds \cup Others

\* ------------------------------------------------------------- the machine
Start == [sw |-> sw, tx |-> <<>>, out_port |-> -1]

HasType(q, type) == \E i \in 1..Len(q) : q[i].msg.type = type
Observed(q) == IF HasType(q, OFPT_FEATURES_REQUEST) THEN now ELSE fr_time

Init ==
    /\ cfg \in Configs
    /\ live = "none"
    /\ sw = NoSwitch
    /\ rconn \in [connected : BOOLEAN, eager : BOOLEAN]
    /\ rconn.eager \/ cfg = Plain(LSW_FLOOD, 60)
    /\ now = 0
    /\ rx = <<>>
    /\ tx = <<>>
    /\ chosen = -1
    /\ fr_time = -1
    /\ link = <<>>
    /\ heap = {}

\* What lswitch_create allocates: the session (xzalloc), the table
\* (mac_learning_create), the packet counter, and one struct lswitch_port for
\* each name of cfg->port_queues (xmalloc).
Record(kind, name) == [kind |-> kind, name |-> name]
Allocated(c) ==
    {Record("lswitch", <<>>), Record("rconn_packet_counter", <<>>)}
    \cup (IF c.mode = LSW_LEARN THEN {Record("mac_learning", <<>>)} ELSE {})
    \cup {Record("lswitch_port", n) : n \in DOMAIN c.port_queues}

\* lswitch_create
Creates ==
    /\ live = "none"
    /\ LET st == lswitch_create(cfg, time_now)
       IN  sw' = st.sw /\ tx' = st.tx /\ fr_time' = Observed(st.tx)
    /\ live' = "live"
    /\ heap' = Allocated(cfg)
    /\ UNCHANGED <<cfg, rconn, now, rx, chosen>>

Create == Creates /\ UNCHANGED link

\* lswitch_process_packet on a message received on the rconn, which
\* delivers messages only while it is connected.
Receives(msgs) ==
    /\ live = "live"
    /\ rx = <<>>
    /\ rconn.connected
    /\ \E msg \in msgs :
         LET st == lswitch_process_packet(Start, msg, time_now)
         IN  /\ sw' = st.sw /\ tx' = st.tx /\ chosen' = st.out_port
             /\ fr_time' = Observed(st.tx)
             /\ rx' = <<msg>>
    /\ UNCHANGED <<cfg, live, rconn, now, heap>>

Receive == Receives(Inbound) /\ UNCHANGED link

\* The caller deletes the message it had lswitch_process_packet process.
Release ==
    /\ rx # <<>>
    /\ rx' = <<>> /\ tx' = <<>> /\ chosen' = -1
    /\ UNCHANGED <<cfg, live, sw, rconn, now, fr_time, link, heap>>

\* lswitch_run
Run ==
    /\ live = "live"
    /\ rx = <<>>
    /\ sw' = IF sw.ml.exists
             THEN [sw EXCEPT !.ml = mac_learning_run(sw.ml, time_now)]
             ELSE sw
    /\ tx' = <<>>
    /\ UNCHANGED <<cfg, live, rconn, now, rx, chosen, fr_time, link, heap>>

Tick ==
    /\ now < MaxTime
    /\ rx = <<>>
    /\ now' = now + 1
    /\ UNCHANGED <<cfg, live, sw, rconn, rx, tx, chosen, fr_time, link, heap>>

\* What lswitch_destroy frees: each struct lswitch_port in sw->queue_numbers,
\* the table, the packet counter and the session.  lib/shash.c:
\* shash_destroy() frees the nodes and the names of sw->queue_names, not the
\* data they point to.
Freed(s) ==
    {Record("lswitch", <<>>), Record("rconn_packet_counter", <<>>),
     Record("mac_learning", <<>>)}
    \cup {Record("lswitch_port", s.queue_numbers[i]) :
             i \in 1..Len(s.queue_numbers)}

\* lswitch_destroy
Destroy ==
    /\ live = "live"
    /\ rx = <<>>
    /\ live' = "destroyed"
    /\ heap' = heap \ Freed(sw)
    /\ sw' = NoSwitch
    /\ tx' = <<>>
    /\ UNCHANGED <<cfg, rconn, now, rx, chosen, fr_time, link>>

\* The connection sends k of the packets it holds.
Sends(k) ==
    /\ rx = <<>>
    /\ k \in 1..sw.queued
    /\ sw' = [sw EXCEPT !.queued = @ - k]
    /\ UNCHANGED <<cfg, live, rconn, now, rx, tx, chosen, fr_time, heap>>

RconnSend == \E k \in 1..TxLimit : Sends(k) /\ UNCHANGED link

\* The connection comes up.
RconnConnect ==
    /\ ~rconn.connected
    /\ rconn' = [rconn EXCEPT !.connected = TRUE]
    /\ UNCHANGED <<cfg, live, sw, now, rx, tx, chosen, fr_time, link, heap>>

Next ==
    \/ Create \/ Receive \/ Release \/ Run \/ Tick \/ RconnSend \/ RconnConnect
    \/ Destroy

Spec == Init /\ [][Next]_vars

\* ----------------------------------------- the machine, with the link kept
\* The same machine on fewer configurations and messages, with the packets
\* the connection holds kept in 'link' in the order rconn_send() took them
\* (lib/rconn.c sends them first in, first out).  'call' is 0 or 1 and
\* changes from each call that has packets accepted to the next.
FifoConfigs == {Plain(LSW_FLOOD, 60), Plain(LSW_LEARN, 60)}

FifoInbound ==
    {m \in Inbound :
        \/ m.type = OFPT_PORT_STATUS
        \/ m.type = OFPT_FEATURES_REPLY /\ m.size = SizeofSwitchFeatures
                                        /\ m.datapath_id = DpidWire
        \/ /\ m.type = OFPT_PACKET_IN /\ m.reason = OFPR_NO_MATCH
           /\ m.size > OffsetofPacketInData
           /\ <<m.data.dl_src, m.data.dl_dst, m.in_port>> \in
                 {<<EthA, EthB, <<0, 1>>>>}}

NextCall(q) == IF q = <<>> THEN 0 ELSE 1 - q[Len(q)].call

\* The packets held once rconn_send() has taken those of 'sent' it accepted.
Held(q, sent) ==
    LET taken == SelectSeq(sent, LAMBDA e : e.retval = 0)
    IN  IF rconn.eager THEN q
        ELSE q \o [i \in 1..Len(taken) |->
                      [type |-> taken[i].msg.type, call |-> NextCall(q)]]

InitFifo ==
    /\ cfg \in FifoConfigs
    /\ live = "none"
    /\ sw = NoSwitch
    /\ rconn \in [connected : BOOLEAN, eager : BOOLEAN]
    /\ now = 0
    /\ rx = <<>>
    /\ tx = <<>>
    /\ chosen = -1
    /\ fr_time = -1
    /\ link = <<>>
    /\ heap = {}

CreateFifo == Creates /\ link' = Held(link, tx')

ReceiveFifo == Receives(FifoInbound) /\ link' = Held(link, tx')

RconnSendFifo ==
    \E k \in 1..TxLimit : Sends(k) /\ link' = SubSeq(link, k + 1, Len(link))

NextFifo ==
    \/ CreateFifo \/ ReceiveFifo \/ Release \/ Run \/ Tick
    \/ RconnSendFifo \/ RconnConnect

SpecFifo == InitFifo /\ [][NextFifo]_vars

\* ------------------------------------ the machine, with queues and learning
\* The same machine in learn mode with queue bindings, with and without a
\* default queue, on a connection that sends at once, with every features
\* reply and the packets between EthA and EthB.
QueueConfigs ==
    {[Queued(LSW_LEARN, 60) EXCEPT !.default_queue = d] :
        d \in {U32(3), UINT32_MAX}}

QueueInbound ==
    FeaturesReplies \cup
    {m \in PacketIns :
        /\ m.reason = OFPR_NO_MATCH /\ m.size > OffsetofPacketInData
        /\ m.buffer_id = BufferNone
        /\ <<m.data.dl_src, m.data.dl_dst>> \in {<<EthA, EthB>>, <<EthB, EthA>>}}

InitQueue ==
    /\ cfg \in QueueConfigs
    /\ live = "none"
    /\ sw = NoSwitch
    /\ rconn \in [connected : BOOLEAN, eager : {TRUE}]
    /\ now = 0
    /\ rx = <<>>
    /\ tx = <<>>
    /\ chosen = -1
    /\ fr_time = -1
    /\ link = <<>>
    /\ heap = {}

ReceiveQueue == Receives(QueueInbound) /\ UNCHANGED link

NextQueue ==
    Create \/ ReceiveQueue \/ Release \/ Run \/ Tick \/ RconnConnect

SpecQueue == InitQueue /\ [][NextQueue]_vars

\* ----------------------------------------------- the machine, with VLANs
\* The same machine in learn mode with tagged packets: EthA sends on VLAN 10
\* only, and EthB sends to EthA on VLAN 20.
TaggedPackets ==
    {[size |-> 64, dl_dst |-> EthB, dl_src |-> EthA, dl_vlan |-> 10],
     [size |-> 64, dl_dst |-> EthA, dl_src |-> EthB, dl_vlan |-> 20]}

VlanInbound ==
    {m \in FeaturesReplies : m.size = SizeofSwitchFeatures}
    \cup {PacketIn(BufferNone, p, OFPR_NO_MATCH, pkt) :
             p \in InPorts, pkt \in TaggedPackets}

InitVlan ==
    /\ cfg \in {Plain(LSW_LEARN, 60), Plain(LSW_LEARN, -1)}
    /\ live = "none"
    /\ sw = NoSwitch
    /\ rconn \in [connected : BOOLEAN, eager : {TRUE}]
    /\ now = 0
    /\ rx = <<>>
    /\ tx = <<>>
    /\ chosen = -1
    /\ fr_time = -1
    /\ link = <<>>
    /\ heap = {}

ReceiveVlan == Receives(VlanInbound) /\ UNCHANGED link

NextVlan ==
    Create \/ ReceiveVlan \/ Release \/ Run \/ Tick \/ RconnConnect

SpecVlan == InitVlan /\ [][NextVlan]_vars

\* ---------------------------------------------------------- the properties
\* Between Receive and Release the state is the one lswitch_process_packet
\* returned in: rx holds the message, tx what was handed to the link for it,
\* chosen the out_port.
Processed == rx # <<>>
Msg == rx[1]
Arrives == rx = <<>> /\ rx' # <<>>
Arrived == rx'[1]

Types(q) == [i \in 1..Len(q) |-> q[i].msg.type]
TypeSet(q) == {q[i].msg.type : i \in 1..Len(q)}
Sent(q, type) == SelectSeq(q, LAMBDA e : e.msg.type = type)
Accepted(q) == SelectSeq(q, LAMBDA e : e.retval = 0)

Known == sw.datapath_id # DpidZero
IsNoMatch(m) ==
    /\ m.type = OFPT_PACKET_IN
    /\ m.size >= OffsetofPacketInData
    /\ m.reason = OFPR_NO_MATCH
\* A NO_MATCH packet-in has just been processed in the KNOWN state.
NoMatchIn == Processed /\ IsNoMatch(Msg) /\ Known
Flow == flow_extract(Msg.data, ntohs(Msg.in_port))
BufferId == ntohl(Msg.buffer_id)

Unicast(ea) == ~eth_addr_is_multicast(ea) /\ ~eth_addr_is_zero(ea)
HasEntry(ml, ea) == MacIndex(ml.lrus, ea, 0) # 0
Entry(ml, ea) == ml.lrus[MacIndex(ml.lrus, ea, 0)]
OutputsTo(m, port) ==
    /\ Len(m.actions) = 1
    /\ m.actions[1].type \in {"OFPAT_OUTPUT", "OFPAT_ENQUEUE"}
    /\ ntohs(m.actions[1].port) = port

\* What a packet-in may change: the datapath id, the table, the bindings.
Core(s) == [datapath_id |-> s.datapath_id, ml |-> s.ml,
            queue_numbers |-> s.queue_numbers, queue_names |-> s.queue_names]
HandshakeTypes == {OFPT_FEATURES_REQUEST, OFPT_SET_CONFIG, OFPT_ECHO_REPLY}

\* C1 as stated: while datapath_id = 0, creation included, the only
\* message types the link is given are FEATURES_REQUEST, SET_CONFIG and
\* ECHO_REPLY.  (Counted here: only the messages the link accepted.)
C1_Original ==
    sw.datapath_id = DpidZero => TypeSet(Accepted(tx)) \subseteq HandshakeTypes

\* C1, amended: while datapath_id = 0 no PACKET_OUT is handed to the link,
\* the only FLOW_MODs handed to it are the configured default_flows that
\* lswitch_create sends after the features request and the set-config, every
\* message lswitch_process_packet hands to it is a FEATURES_REQUEST, SET_CONFIG
\* or ECHO_REPLY, and a packet-in chooses no port and leaves the datapath id,
\* the table and the bindings alone.
C1_UnknownStates ==
    sw.datapath_id = DpidZero =>
        /\ OFPT_PACKET_OUT \notin TypeSet(tx)
        /\ Processed => TypeSet(tx) \subseteq HandshakeTypes
        /\ ~Processed /\ tx # <<>> =>
              /\ Len(tx) = 2 + Len(cfg.default_flows)
              /\ \A i \in 1..Len(cfg.default_flows) :
                    tx[2 + i].msg = cfg.default_flows[i]
              /\ TypeSet(SubSeq(tx, 1, 2)) \subseteq HandshakeTypes
C1_UnknownSteps ==
    Arrives /\ sw.datapath_id = DpidZero /\ Arrived.type = OFPT_PACKET_IN =>
        Core(sw') = Core(sw) /\ chosen' = -1
C1_UnknownSendsOnlyHandshake == []C1_UnknownStates /\ [][C1_UnknownSteps]_vars

\* A packet-in that would install a flow is answered, while datapath_id = 0,
\* by a features request and a set-config.
C1_Witness ==
    /\ Processed /\ IsNoMatch(Msg) /\ sw.datapath_id = DpidZero
    /\ sw.max_idle >= 0
    /\ Types(tx) = <<OFPT_FEATURES_REQUEST, OFPT_SET_CONFIG>>
    /\ chosen = -1

\* C2: a NO_MATCH packet-in processed in the KNOWN state has a FLOW_MOD(ADD)
\* handed to the link iff max_idle >= 0 and (mode # learn or out_port #
\* FLOOD); a learn-mode session hands over no flow-mod that outputs to FLOOD;
\* and in learn mode a packet-in with buffer_id = NONE to a unicast
\* destination the lookup does not find has exactly one message handed over,
\* a packet-out.
C2_FlowModIff ==
    NoMatchIn =>
        /\ Len(Sent(tx, OFPT_FLOW_MOD)) =
              (IF sw.max_idle >= 0 /\ (cfg.mode # LSW_LEARN \/ chosen # OFPP_FLOOD)
               THEN 1 ELSE 0)
        /\ \A i \in 1..Len(tx) :
              tx[i].msg.type = OFPT_FLOW_MOD =>
                 /\ tx[i].msg.command = "OFPFC_ADD"
                 /\ cfg.mode = LSW_LEARN => ~OutputsTo(tx[i].msg, OFPP_FLOOD)
        /\ (/\ cfg.mode = LSW_LEARN
            /\ ~eth_addr_is_multicast(Flow.dl_dst)
            /\ mac_learning_lookup(sw.ml, Flow.dl_dst, 0, now) = -1
            /\ BufferId = UINT32_MAX)
           => Types(tx) = <<OFPT_PACKET_OUT>>

\* A learn-mode session that installs flows floods a packet to an unknown
\* unicast destination with one packet-out and no flow-mod.
C2_Witness ==
    /\ NoMatchIn /\ cfg.mode = LSW_LEARN /\ sw.max_idle >= 0
    /\ Flow.dl_dst = EthB /\ Flow.dl_src = EthA
    /\ BufferId = UINT32_MAX
    /\ chosen = OFPP_FLOOD
    /\ Types(tx) = <<OFPT_PACKET_OUT>>
    /\ OutputsTo(tx[1].msg, OFPP_FLOOD)

\* C3: in a learn-mode session in the KNOWN state the table holds for a
\* unicast address A the port of the most recent NO_MATCH packet-in from A
\* (a packet-in from A puts A on its port; nothing else changes an entry
\* other than removing it), and a NO_MATCH packet-in for A from another
\* address, arriving on a port other than the one A's unexpired entry
\* holds, is given that port, with a flow-mod that outputs to it when
\* max_idle >= 0.
C3_Lookup ==
    NoMatchIn /\ cfg.mode = LSW_LEARN =>
        /\ Unicast(Flow.dl_src) =>
              /\ HasEntry(sw.ml, Flow.dl_src)
              /\ Entry(sw.ml, Flow.dl_src).port = Flow.in_port
        /\ (/\ Flow.dl_dst # Flow.dl_src
            /\ HasEntry(sw.ml, Flow.dl_dst)
            /\ now - Entry(sw.ml, Flow.dl_dst).used <= AgeHard
            /\ Entry(sw.ml, Flow.dl_dst).port # Flow.in_port)
           => /\ chosen = Entry(sw.ml, Flow.dl_dst).port
              /\ sw.max_idle >= 0 =>
                    /\ Len(Sent(tx, OFPT_FLOW_MOD)) = 1
                    /\ OutputsTo(Sent(tx, OFPT_FLOW_MOD)[1].msg, chosen)
C3_Table ==
    \A ea \in Addrs \cup {EthZero} :
        HasEntry(sw'.ml, ea) =>
            \/ HasEntry(sw.ml, ea) /\ Entry(sw'.ml, ea) = Entry(sw.ml, ea)
            \/ /\ Arrives /\ IsNoMatch(Arrived) /\ Known
               /\ Arrived.data.size >= ETH_HEADER_LEN
               /\ Arrived.data.dl_src = ea
               /\ Entry(sw'.ml, ea).port = ntohs(Arrived.in_port)
C3_LookupFollowsLatestPort == []C3_Lookup /\ [][C3_Table]_vars

\* A packet for EthA, arriving from EthB on port 1, is sent to port 2, which
\* EthA is on; both addresses are in the table.
C3_Witness ==
    /\ NoMatchIn /\ cfg.mode = LSW_LEARN /\ sw.max_idle >= 0
    /\ Flow.dl_dst = EthA /\ Flow.dl_src = EthB /\ Flow.in_port = 1
    /\ HasEntry(sw.ml, EthA) /\ Entry(sw.ml, EthA).port = 2
    /\ HasEntry(sw.ml, EthB) /\ Entry(sw.ml, EthB).port = 1
    /\ chosen = 2
    /\ Len(Sent(tx, OFPT_FLOW_MOD)) = 1
    /\ OutputsTo(Sent(tx, OFPT_FLOW_MOD)[1].msg, 2)

\* C4 as stated: a learn-mode packet-in with dl_src = dl_dst is given
\* out_port NONE whatever the address is.
C4_Original ==
    NoMatchIn /\ cfg.mode = LSW_LEARN /\ Flow.dl_src = Flow.dl_dst =>
        chosen = OFPP_NONE

\* C4, amended: a learn-mode packet-in with dl_src = dl_dst is given
\* out_port NONE when the address is unicast and not zero (it has just
\* been learned on the input port) or reserved; when it is zero, broadcast
\* or another multicast address it is not learned and the packet is given
\* out_port FLOOD.
C4_SameAddress ==
    NoMatchIn /\ cfg.mode = LSW_LEARN /\ Flow.dl_src = Flow.dl_dst =>
        chosen = (IF Unicast(Flow.dl_dst) \/ eth_addr_is_reserved(Flow.dl_dst)
                  THEN OFPP_NONE ELSE OFPP_FLOOD)

\* A packet from EthA to EthA, in a table that holds EthB too: NONE.
C4_Witness ==
    /\ NoMatchIn /\ cfg.mode = LSW_LEARN
    /\ Flow.dl_src = EthA /\ Flow.dl_dst = EthA
    /\ Len(sw.ml.lrus) = 2
    /\ chosen = OFPP_NONE

\* C5 as stated: in normal mode every packet-in whose destination is not a
\* reserved multicast address is given out_port NORMAL.
C5_NormalChoosesNormal ==
    NoMatchIn /\ cfg.mode = LSW_NORMAL /\ ~eth_addr_is_reserved(Flow.dl_dst) =>
        chosen = OFPP_NORMAL

\* C6: a packet-in whose destination is in 01:80:C2:00:00:00-0F is given
\* out_port NONE in every mode, whatever the table holds, and in learn mode
\* its unicast source address has been learned on the input port all the
\* same.
C6_ReservedDropped ==
    NoMatchIn /\ eth_addr_is_reserved(Flow.dl_dst) =>
        /\ chosen = OFPP_NONE
        /\ cfg.mode = LSW_LEARN /\ Unicast(Flow.dl_src) =>
              /\ HasEntry(sw.ml, Flow.dl_src)
              /\ Entry(sw.ml, Flow.dl_src).port = Flow.in_port
              /\ Entry(sw.ml, Flow.dl_src).used = now

\* A packet from EthA to the spanning-tree address, in a learn-mode session
\* whose table holds EthB: NONE, and EthA is in the table on the input port.
C6_Witness ==
    /\ NoMatchIn /\ cfg.mode = LSW_LEARN
    /\ Flow.dl_dst = EthStp /\ Flow.dl_src = EthA
    /\ chosen = OFPP_NONE
    /\ HasEntry(sw.ml, EthB)
    /\ Entry(sw.ml, EthA).port = Flow.in_port

\* C7 as stated: in a KNOWN session a NO_MATCH packet-in for
\* 01:80:C2:00:00:00 with buffer_id = NONE has no message handed to the link.
C7_Original ==
    NoMatchIn /\ Flow.dl_dst = EthStp /\ BufferId = UINT32_MAX => tx = <<>>

\* C7, amended: in a KNOWN session a NO_MATCH packet-in for
\* 01:80:C2:00:00:00 with buffer_id = NONE has no packet-out handed to the
\* link; with max_idle < 0 nothing at all is handed over, and with
\* max_idle >= 0 (S1 included) exactly one message is: a FLOW_MOD(ADD) with
\* an empty action list.
C7_ReservedInstallsDrop ==
    NoMatchIn /\ Flow.dl_dst = EthStp /\ BufferId = UINT32_MAX =>
        IF sw.max_idle < 0 THEN tx = <<>>
        ELSE /\ Types(tx) = <<OFPT_FLOW_MOD>>
             /\ tx[1].msg.command = "OFPFC_ADD"
             /\ tx[1].msg.actions = <<>>
             /\ tx[1].msg.buffer_id = htonl(UINT32_MAX)

\* S1 (mode learn, max_idle 60): the flow-mod without actions.
C7_Witness ==
    /\ NoMatchIn /\ Flow.dl_dst = EthStp /\ BufferId = UINT32_MAX
    /\ cfg = Plain(LSW_LEARN, 60)
    /\ Types(tx) = <<OFPT_FLOW_MOD>>
    /\ tx[1].msg.actions = <<>>

\* C8: the first two messages lswitch_create hands to the link are a
\* FEATURES_REQUEST and a SET_CONFIG with miss_send_len = 128, the only ones
\* of their types and ahead of every default flow, the session it returns
\* has datapath_id = 0, and datapath_id leaves 0 only when a features reply
\* is processed.
C8_Created ==
    live = "none" /\ live' = "live" =>
        /\ Len(tx') = 2 + Len(cfg.default_flows)
        /\ tx'[1].msg.type = OFPT_FEATURES_REQUEST
        /\ tx'[2].msg.type = OFPT_SET_CONFIG
        /\ ntohs(tx'[2].msg.miss_send_len) = 128
        /\ \A i \in 3..Len(tx') : tx'[i].msg = cfg.default_flows[i - 2]
        /\ sw'.datapath_id = DpidZero
C8_StaysUnknown ==
    live = "live" /\ sw.datapath_id = DpidZero /\ sw'.datapath_id # DpidZero =>
        /\ Arrives
        /\ Arrived.type = OFPT_FEATURES_REPLY
        /\ sw'.datapath_id = ntohll(Arrived.datapath_id)
C8_CreateSendsHandshake == [][C8_Created /\ C8_StaysUnknown]_vars

\* A session just created with one default flow: three messages.
C8_Witness ==
    /\ live = "live" /\ ~Processed
    /\ Types(tx) = <<OFPT_FEATURES_REQUEST, OFPT_SET_CONFIG, OFPT_FLOW_MOD>>
    /\ tx[3].msg = DefaultFlow
    /\ sw.datapath_id = DpidZero

\* C9: while datapath_id = 0 a message other than an echo request and a
\* features reply is not dispatched (no port chosen; datapath id, table and
\* bindings unchanged), and a FEATURES_REQUEST is handed to the link for it
\* exactly when the clock is at least one second past the previous
\* FEATURES_REQUEST, the one at creation included; no FEATURES_REQUEST is
\* ever handed over in the second of the previous one.
C9_Unknown ==
    Arrives /\ sw.datapath_id = DpidZero
            /\ Arrived.type \notin {OFPT_ECHO_REQUEST, OFPT_FEATURES_REPLY} =>
        /\ Core(sw') = Core(sw) /\ chosen' = -1
        /\ fr_time >= 0
        /\ IF now >= fr_time + 1
           THEN Types(tx') = <<OFPT_FEATURES_REQUEST, OFPT_SET_CONFIG>>
           ELSE tx' = <<>>
C9_Spaced ==
    tx' # tx /\ HasType(tx', OFPT_FEATURES_REQUEST) =>
        /\ Len(Sent(tx', OFPT_FEATURES_REQUEST)) = 1
        /\ now' > fr_time
        /\ fr_time' = now'
C9_FeaturesRequestThrottle == [][C9_Unknown /\ C9_Spaced]_vars

\* A port status in the UNKNOWN state, a second or more after the last
\* features request: the next one.
C9_Witness ==
    /\ Processed /\ Msg.type = OFPT_PORT_STATUS
    /\ sw.datapath_id = DpidZero
    /\ Types(tx) = <<OFPT_FEATURES_REQUEST, OFPT_SET_CONFIG>>
    /\ fr_time = now /\ now >= 1

\* C10: in the UNKNOWN and in the KNOWN state alike, an echo request of at
\* least header length has exactly one message handed to the link, an echo
\* reply with the request's xid and payload; no features request is sent,
\* and datapath id, table and bindings stay as they are.
C10_Echo ==
    Arrives /\ Arrived.type = OFPT_ECHO_REQUEST /\ Arrived.size >= SizeofHeader =>
        /\ Len(tx') = 1
        /\ tx'[1].msg.type = OFPT_ECHO_REPLY
        /\ tx'[1].msg.xid = Arrived.xid
        /\ tx'[1].msg.payload = Arrived.payload
        /\ Core(sw') = Core(sw)
        /\ sw'.last_features_request = sw.last_features_request
        /\ fr_time' = fr_time
C10_EchoRoundTrip == [][C10_Echo]_vars

\* An echo request with a payload, answered while datapath_id = 0 and a
\* features request would be due.
C10_Witness ==
    /\ Processed /\ Msg.type = OFPT_ECHO_REQUEST
    /\ Msg.payload # <<>> /\ Msg.xid = <<18, 52, 86, 120>>
    /\ sw.datapath_id = DpidZero
    /\ now >= fr_time + 1
    /\ Types(tx) = <<OFPT_ECHO_REPLY>>
    /\ tx[1].msg.payload = Msg.payload /\ tx[1].msg.xid = Msg.xid

\* C11: a session never has more than 10 packets in flight.  queue_tx with
\* 10 in flight is refused with EAGAIN and leaves the session as it is
\* (datapath id, table, bindings, features-request time, and the count
\* itself); with fewer than 10 in flight on a connected link it is accepted.
\* A refused packet is not counted later: over one call the count rises by
\* the packets accepted, and a packet is refused exactly when the count has
\* reached 10.
Taken(q, i) == Len(Accepted(SubSeq(q, 1, i)))
C11_QueueTx ==
    live = "live" =>
        /\ sw.queued \in 0..TxLimit
        /\ \A b \in {FeaturesRequest, SetConfig, DefaultFlow} :
              LET r == queue_tx(Start, b)
              IN  /\ Len(r.tx) = 1 /\ r.tx[1].msg = b
                  /\ sw.queued >= TxLimit =>
                        r.tx[1].retval = EAGAIN /\ r.sw = sw
                  /\ sw.queued < TxLimit /\ rconn.connected =>
                        /\ r.tx[1].retval = 0
                        /\ r.sw = [sw EXCEPT !.queued =
                                      IF rconn.eager THEN @ ELSE @ + 1]
C11_Counted ==
    Arrives =>
        /\ sw'.queued = sw.queued +
              (IF rconn.eager THEN 0 ELSE Len(Accepted(tx')))
        /\ \A i \in 1..Len(tx') :
              /\ tx'[i].retval \in {0, EAGAIN}
              /\ ~rconn.eager =>
                    (tx'[i].retval = EAGAIN
                        <=> sw.queued + Taken(tx', i - 1) = TxLimit)
C11_InFlightAtMostTen == []C11_QueueTx /\ [][C11_Counted]_vars

\* With 9 packets in flight a packet-in yields a flow-mod, accepted, and a
\* packet-out, refused.
C11_Witness ==
    /\ NoMatchIn /\ sw.queued = TxLimit
    /\ Types(tx) = <<OFPT_FLOW_MOD, OFPT_PACKET_OUT>>
    /\ tx[1].retval = 0 /\ tx[2].retval = EAGAIN

\* C12: when one packet-in has a flow-mod and a packet-out handed to the
\* link, the flow-mod is handed over first; the packets the link accepted
\* for a call are held behind every packet of the calls before, in the order
\* they were handed over; and the connection sends the oldest first.
IsSuffix(q, r) == Len(q) <= Len(r) /\ q = SubSeq(r, Len(r) - Len(q) + 1, Len(r))
C12_InCall ==
    /\ NoMatchIn /\ HasType(tx, OFPT_FLOW_MOD) /\ HasType(tx, OFPT_PACKET_OUT) =>
          Types(tx) = <<OFPT_FLOW_MOD, OFPT_PACKET_OUT>>
    /\ live = "live" /\ ~rconn.eager => Len(link) = sw.queued
    /\ \A i \in 1..(Len(link) - 1) :
          link[i].type = OFPT_PACKET_OUT /\ link[i + 1].type = OFPT_FLOW_MOD =>
             link[i + 1].call # link[i].call
C12_AcrossCalls ==
    /\ Arrives /\ ~rconn.eager =>
          /\ Len(link') = Len(link) + Len(Accepted(tx'))
          /\ SubSeq(link', 1, Len(link)) = link
          /\ \A i \in 1..Len(Accepted(tx')) :
                /\ link'[Len(link) + i].type = Accepted(tx')[i].msg.type
                /\ link # <<>> =>
                      link'[Len(link) + i].call # link[Len(link)].call
    /\ sw'.queued < sw.queued => link' # link /\ IsSuffix(link', link)
C12_FlowModThenPacketOut == []C12_InCall /\ [][C12_AcrossCalls]_vars

\* The link holds the flow-mod and the packet-out of one packet-in behind
\* those of the packet-in before.
C12_Witness ==
    /\ NoMatchIn /\ Len(link) >= 4
    /\ Types(Accepted(tx)) = <<OFPT_FLOW_MOD, OFPT_PACKET_OUT>>
    /\ LET n == Len(link)
       IN  /\ <<link[n - 3].type, link[n - 2].type>> = <<OFPT_FLOW_MOD, OFPT_PACKET_OUT>>
           /\ <<link[n - 1].type, link[n].type>> = <<OFPT_FLOW_MOD, OFPT_PACKET_OUT>>
           /\ link[n - 2].call # link[n - 1].call
           /\ link[n - 3].call = link[n - 2].call
           /\ link[n - 1].call = link[n].call

\* C13: for a NO_MATCH packet-in whose out_port is not NONE, with q the
\* queue_id of a binding in the by-port-number index whose port_no is the
\* packet's input port, or default_queue when there is no such binding,
\* every message handed to the link carries the one action ENQUEUE(out_port,
\* q) when q is not NONE and out_port < 0xff00, and OUTPUT(out_port)
\* otherwise.  The output port plays no part in q.
BoundTo(port) ==
    {n \in DOMAIN sw.queue_names :
        sw.queue_names[n].in_hmap /\ sw.queue_names[n].port_no = port}
QueuesOf(port) ==
    IF BoundTo(port) = {} THEN {sw.default_queue}
    ELSE {sw.queue_names[n].queue_id : n \in BoundTo(port)}
ActionFor(out_port, q) ==
    IF q # UINT32_MAX /\ out_port < 65280
    THEN [type |-> "OFPAT_ENQUEUE", len |-> htons(16),
          port |-> htons(out_port), queue_id |-> htonl(q)]
    ELSE [type |-> "OFPAT_OUTPUT", len |-> htons(8), port |-> htons(out_port)]
C13_QueueByInputPort ==
    NoMatchIn /\ chosen # OFPP_NONE =>
        /\ tx # <<>>
        /\ \E q \in QueuesOf(Flow.in_port) :
              \A i \in 1..Len(tx) :
                 tx[i].msg.actions = <<ActionFor(chosen, q)>>

\* A packet from port 1, which eth0 (queue 7) is bound to, for a station
\* learned on port 2: ENQUEUE(2, 7) in the flow-mod and in the packet-out.
C13_Witness ==
    /\ NoMatchIn /\ Flow.in_port = 1 /\ chosen = 2
    /\ BoundTo(1) = {NameEth0} /\ BoundTo(2) # {}
    /\ Types(tx) = <<OFPT_FLOW_MOD, OFPT_PACKET_OUT>>
    /\ tx[1].msg.actions = <<ActionFor(2, U32(7))>>
    /\ tx[2].msg.actions = <<ActionFor(2, U32(7))>>
    /\ tx[1].msg.actions[1].type = "OFPAT_ENQUEUE"

\* C14: for a NO_MATCH packet-in processed in the KNOWN state a PACKET_OUT
\* is handed to the link exactly when a flow-mod is and buffer_id = NONE and
\* the action list is not empty, or no flow-mod is and buffer_id # NONE or
\* the action list is not empty.  No packet-out has both no actions and
\* buffer_id = NONE; a packet-out without a buffer carries the packet; and a
\* buffer_id other than NONE is named by exactly one message, the flow-mod
\* if there is one and the packet-out otherwise.
Naming(q, buffer_id) == SelectSeq(q, LAMBDA e : e.msg.buffer_id = buffer_id)
C14_PacketOutWhen ==
    NoMatchIn =>
        LET installed == HasType(tx, OFPT_FLOW_MOD)
            buffered == Msg.buffer_id # <<255, 255, 255, 255>>
            acts == chosen # OFPP_NONE
        IN  /\ Len(Sent(tx, OFPT_PACKET_OUT)) =
                  (IF \/ installed /\ ~buffered /\ acts
                      \/ ~installed /\ (buffered \/ acts)
                   THEN 1 ELSE 0)
            /\ \A i \in 1..Len(tx) :
                  /\ tx[i].msg.type \in {OFPT_FLOW_MOD, OFPT_PACKET_OUT}
                  /\ tx[i].msg.actions # <<>> <=> acts
                  /\ tx[i].msg.type = OFPT_PACKET_OUT =>
                        /\ tx[i].msg.actions # <<>> \/ buffered
                        /\ tx[i].msg.data = (IF buffered THEN <<>> ELSE <<Msg.data>>)
            /\ buffered =>
                  /\ Len(Naming(tx, Msg.buffer_id)) = 1
                  /\ Naming(tx, Msg.buffer_id)[1].msg.type =
                        (IF installed THEN OFPT_FLOW_MOD ELSE OFPT_PACKET_OUT)

\* A session that installs no flows drops a buffered packet for a reserved
\* address with a packet-out that names the buffer and has no actions.
C14_Witness ==
    /\ NoMatchIn /\ sw.max_idle < 0 /\ chosen = OFPP_NONE
    /\ Msg.buffer_id = <<0, 0, 0, 7>>
    /\ Types(tx) = <<OFPT_PACKET_OUT>>
    /\ tx[1].msg.actions = <<>>
    /\ tx[1].msg.buffer_id = Msg.buffer_id

\* C15 as stated: whatever features replies have been processed, no two
\* bindings in the by-port-number index have the same port_no.
C15_DistinctPortNumbers ==
    \A n1, n2 \in DOMAIN sw.queue_names :
        (/\ n1 # n2
         /\ sw.queue_names[n1].in_hmap
         /\ sw.queue_names[n2].in_hmap)
        => sw.queue_names[n1].port_no # sw.queue_names[n2].port_no

\* C16 as stated: a message of a handled type shorter than its type's
\* minimum has nothing handed to the link and leaves datapath id,
\* features-request time, table and bindings as they are, in every state.
Short(m) ==
    \/ m.type = OFPT_ECHO_REQUEST /\ m.size < 8
    \/ m.type = OFPT_FEATURES_REPLY /\ m.size < 32
    \/ m.type = OFPT_PACKET_IN /\ m.size < 18
    \/ m.type = OFPT_FLOW_REMOVED /\ m.size < 88
C16_OriginalStep ==
    Arrives /\ Short(Arrived) =>
        /\ tx' = <<>>
        /\ Core(sw') = Core(sw)
        /\ sw'.last_features_request = sw.last_features_request
C16_Original == [][C16_OriginalStep]_vars

\* C16, amended: such a message never changes datapath id, table or
\* bindings and has no port chosen.  In the KNOWN state, and for an echo
\* request or a features reply in the UNKNOWN state too, nothing is handed to
\* the link and the session stays as it is.  A short packet-in or
\* flow-removed in the UNKNOWN state is answered like any other message
\* there: by a features request and a set-config, with the features-request
\* time set to the clock, when the clock is a second or more past the last
\* features request, and by nothing otherwise.
C16_ShortStep ==
    Arrives /\ Short(Arrived) =>
        /\ Core(sw') = Core(sw) /\ chosen' = -1
        /\ IF /\ sw.datapath_id = DpidZero
              /\ Arrived.type \in {OFPT_PACKET_IN, OFPT_FLOW_REMOVED}
              /\ now >= fr_time + 1
           THEN /\ Types(tx') = <<OFPT_FEATURES_REQUEST, OFPT_SET_CONFIG>>
                /\ sw'.last_features_request = now
           ELSE tx' = <<>> /\ sw' = sw
C16_ShortDropped == [][C16_ShortStep]_vars

\* A short packet-in dropped in the KNOWN state of a learn-mode session.
C16_Witness ==
    /\ Processed /\ Short(Msg) /\ Msg.type = OFPT_PACKET_IN
    /\ Known /\ cfg.mode = LSW_LEARN
    /\ tx = <<>> /\ chosen = -1
    /\ ~HasEntry(sw.ml, Msg.data.dl_src)

\* C17 as stated: a packet for EthA on VLAN 20, in a session where EthA
\* has been seen on VLAN 10 at most and never on VLAN 20, is flooded.
C17_LookupByVlan ==
    NoMatchIn /\ Flow.dl_dst = EthA /\ Flow.dl_vlan = 20 =>
        chosen = OFPP_FLOOD

\* C18 as stated: once lswitch_destroy has returned, no record allocated
\* for the session is left: not the table, not the packet counter, not a
\* struct lswitch_port, resolved by a features reply or not.
C18_AllReleased == live = "destroyed" => heap = {}

\* C19 as stated: a packet-in whose reason is not NO_MATCH leaves the
\* session as it is and has nothing handed to the link.
ByAction(m) == m.type = OFPT_PACKET_IN /\ m.size >= 18 /\ m.reason # 0
C19_OriginalStep ==
    Arrives /\ ByAction(Arrived) => sw' = sw /\ tx' = <<>>
C19_Original == [][C19_OriginalStep]_vars

\* C19, amended: a packet-in whose reason is not NO_MATCH never has its
\* source address learned or refreshed, has no port chosen and leaves
\* datapath id and bindings alone.  In the KNOWN state the session stays
\* entirely as it is and nothing is handed to the link.  In the UNKNOWN state
\* it is answered like any other message there: by a features request and a
\* set-config, with the features-request time set to the clock, when the
\* clock is a second or more past the last features request, and by nothing
\* otherwise.
C19_ByActionStep ==
    Arrives /\ ByAction(Arrived) =>
        /\ Core(sw') = Core(sw) /\ chosen' = -1
        /\ IF sw.datapath_id = DpidZero /\ now >= fr_time + 1
           THEN /\ Types(tx') = <<OFPT_FEATURES_REQUEST, OFPT_SET_CONFIG>>
                /\ sw'.last_features_request = now
           ELSE tx' = <<>> /\ sw' = sw
C19_ByActionIgnored == [][C19_ByActionStep]_vars

\* A packet from EthA sent by an action, in the KNOWN state of a learn-mode
\* session that holds EthB: EthA is not learned and nothing is sent.
C19_Witness ==
    /\ Processed /\ ByAction(Msg) /\ Known /\ cfg.mode = LSW_LEARN
    /\ Msg.data.dl_src = EthA
    /\ HasEntry(sw.ml, EthB) /\ ~HasEntry(sw.ml, EthA)
    /\ tx = <<>> /\ chosen = -1

\* C20: while the session lives, datapath id and bindings (the
\* by-port-number index and the port numbers in it) change only in the
\* processing of a features reply whose length is 32 bytes plus a whole
\* number of 48-byte ports; such a reply sets the datapath id to the value it
\* carries, 0 included; and a features reply of another length, like a
\* message of any other type, leaves datapath id and bindings as they are.
PassesArrayCheck(m) ==
    LET length == m.length[1] * 256 + m.length[2]
    IN  m.size >= 32 /\ length >= 32 /\ (length - 32) % 48 = 0
Carried(m) ==
    [i \in 1..4 |-> m.datapath_id[2 * i - 1] * 256 + m.datapath_id[2 * i]]
Identity(s) == [datapath_id |-> s.datapath_id,
                queue_numbers |-> s.queue_numbers, queue_names |-> s.queue_names]
C20_Step ==
    live = "live" /\ live' = "live" =>
        /\ Identity(sw') # Identity(sw) =>
              /\ Arrives /\ Arrived.type = OFPT_FEATURES_REPLY
              /\ PassesArrayCheck(Arrived)
        /\ Arrives /\ Arrived.type = OFPT_FEATURES_REPLY
                   /\ PassesArrayCheck(Arrived) =>
              sw'.datapath_id = Carried(Arrived)
C20_OnlyFeaturesReply == [][C20_Step]_vars

\* A features reply with datapath id 0 has taken a learn-mode session that
\* had learned an address back to the UNKNOWN state.
C20_Witness ==
    /\ Processed /\ Msg.type = OFPT_FEATURES_REPLY /\ PassesArrayCheck(Msg)
    /\ Msg.datapath_id = <<0, 0, 0, 0, 0, 0, 0, 0>>
    /\ sw.datapath_id = DpidZero
    /\ sw.ml.lrus # <<>>

====
